---- MODULE Spec2Model ----
(***************************************************************************)
(* The device mutation handlers of boxesController.js (updateBox with      *)
(* updateSensor, postNewBox, deleteBox) running against the module-level   *)
(* store handle `db`.  Every `await db.query(...)` is one step: the store  *)
(* executes the statement the request has in flight, and the request's     *)
(* code runs up to its next `await`, which puts the next statement in      *)
(* flight.  Requests interleave at these steps.                            *)
(***************************************************************************)
EXTENDS Integers, Sequences, FiniteSets, TLC

(***************************************************************************)
(* Bounds of the model.                                                    *)
(***************************************************************************)
NReq == 2         \* requests served in one behaviour
MaxBatch == 2     \* sensor descriptors / definitions read from one request
MaxFaults == 1    \* statements the store fails for reasons of its own

Requests == 1..NReq

(***************************************************************************)
(* JavaScript values.  Every value is a pair <<n, s>>: n = 0 for the       *)
(* literals and for what the store holds initially, n = r for a value      *)
(* that request r supplies for field s.                                    *)
(***************************************************************************)
Undef == <<0, "undefined">>
Empty == <<0, "">>
False == <<0, "false">>
True == <<0, "true">>
Null == <<0, "null">>
Inactive == <<0, "INACTIVE">>
Orig(f) == <<0, f>>
Val(r, f) == <<r, f>>
Uuid(r) == <<r, "uuid">>
Now(r) == <<r, "now">>
By(v) == v[1]

\* JavaScript truthiness: `if (element)`, `if (deleted)`, `a || b`
Truthy(v) == v \notin {Undef, Null, Empty, False}
OrElse(a, b) == IF Truthy(a) THEN a ELSE b

S1 == <<0, "s1">>
S2 == <<0, "s2">>
S3 == <<0, "s3">>
D1 == <<0, "d1">>
D9 == <<0, "d9">>
D2 == <<0, "d2">>
S4 == <<0, "s4">>
U1 == <<0, "u1">>

(***************************************************************************)
(* The store: the tables keyed by identifier.  A table is a function from  *)
(* the identifiers of its rows to the rows; a row is a function from       *)
(* column name to value.                                                   *)
(***************************************************************************)
DeviceCols == {"name", "description", "exposure", "useAuth", "model", "public",
               "status", "latitude", "longitude", "userId", "updatedAt"}
SensorCols == {"title", "unit", "sensorType", "status", "icon", "updatedAt", "deviceId"}
DeviceRequired == {"name", "exposure", "latitude", "longitude", "userId"}
SensorRequired == {"title", "unit", "sensorType", "deviceId"}

\* identifiers the store hands out for a row inserted without one
GenIds == [k \in 1..(NReq * MaxBatch) |-> <<0, "generated", k>>]

Cols(table) == IF table = "Device" THEN DeviceCols ELSE SensorCols
Required(table) == IF table = "Device" THEN DeviceRequired ELSE SensorRequired
Table(db, table) ==
    CASE table = "Device" -> db.dev
      [] table = "Sensor" -> db.sen
      [] OTHER -> db.pwd
WithTable(db, table, t) ==
    IF table = "Device" THEN [db EXCEPT !.dev = t] ELSE [db EXCEPT !.sen = t]

Drop(t, ids) == [k \in DOMAIN t \ ids |-> t[k]]
Put(t, id, row) == [k \in DOMAIN t \cup {id} |-> IF k = id THEN row ELSE t[k]]

\* a statement: its text, reduced to what the store reads from it, and the
\* bound values.  Term <<k, lit>> is the placeholder $k when k > 0 and the
\* literal lit written into the text when k = 0.
Stmt(op, table, cols, terms, where, values, wellFormed) ==
    [op |-> op, table |-> table, cols |-> cols, terms |-> terms,
     where |-> where, values |-> values, wellFormed |-> wellFormed]
Plain(op) == Stmt(op, "", <<>>, <<>>, 0, <<>>, TRUE)
NoStmt == Plain("")

TermValue(s, k) == IF s.terms[k][1] > 0 THEN s.values[s.terms[k][1]] ELSE s.terms[k][2]
WhereId(s) == s.values[s.where]
\* the value statement s gives column c: the last assignment to c, NULL if none
Assigned(s, c) ==
    LET ks == {k \in 1..Len(s.cols) : s.cols[k] = c}
    IN  IF ks = {} THEN Undef ELSE TermValue(s, CHOOSE k \in ks : \A j \in ks : j <= k)
Assigns(s, c) == \E k \in 1..Len(s.cols) : s.cols[k] = c

FreeGenIds(db) == {k \in 1..Len(GenIds) : GenIds[k] \notin DOMAIN db.sen}
FreshId(db) == GenIds[CHOOSE k \in FreeGenIds(db) : \A j \in FreeGenIds(db) : k <= j]

\* Column defaults of the tables (status INACTIVE, booleans false)
DefaultOf(table, c) ==
    IF table = "Device" /\ c = "status" THEN Inactive
    ELSE IF table = "Device" /\ c \in {"useAuth", "public"} THEN False
    ELSE Undef

InsertedRow(s) ==
    [c \in Cols(s.table) |-> IF Assigns(s, c) THEN Assigned(s, c) ELSE DefaultOf(s.table, c)]
InsertedId(db, s) ==
    IF Assigned(s, "id") \in {Undef, Null} THEN FreshId(db) ELSE Assigned(s, "id")
UpdatedRow(s, row) ==
    [c \in DOMAIN row |-> IF Assigns(s, c) THEN Assigned(s, c) ELSE row[c]]

\* variant of the constraints without the foreign key
RowOkNoReference(db, table, row) ==
    \A c \in Required(table) : row[c] \notin {Undef, Null}

RowOk(db, table, row) ==
    /\ \A c \in Required(table) : row[c] \notin {Undef, Null}
    /\ table = "Sensor" => row["deviceId"] \in DOMAIN db.dev

\* the rows statement s matches
Matched(db, s) == {k \in DOMAIN Table(db, s.table) : k = WhereId(s)}

\* does the store accept statement s in state db
Accepts(db, s) ==
    /\ s.wellFormed
    /\ s.op = "INSERT" =>
         /\ Len(s.cols) = Len(s.terms)
         /\ \A k \in 1..Len(s.terms) : s.terms[k][1] \in 1..Len(s.values)
         /\ InsertedId(db, s) \notin DOMAIN Table(db, s.table)
         /\ RowOk(db, s.table, InsertedRow(s))
    /\ s.op = "UPDATE" =>
         \A k \in Matched(db, s) : RowOk(db, s.table, UpdatedRow(s, Table(db, s.table)[k]))

\* the store state after statement s, which the store accepts
Effect(db, s) ==
    LET t == Table(db, s.table) IN
    CASE s.op = "INSERT" -> WithTable(db, s.table, Put(t, InsertedId(db, s), InsertedRow(s)))
      [] s.op = "UPDATE" ->
           WithTable(db, s.table,
                     [k \in DOMAIN t |-> IF k \in Matched(db, s) THEN UpdatedRow(s, t[k]) ELSE t[k]])
      [] s.op = "DELETE" /\ s.table = "Sensor" -> WithTable(db, s.table, Drop(t, Matched(db, s)))
      [] s.op = "DELETE" /\ s.table = "Device" ->
           [db EXCEPT !.dev = Drop(t, Matched(db, s)),
                      !.sen = Drop(@, {k \in DOMAIN @ : @[k]["deviceId"] \in Matched(db, s)})]
      [] OTHER -> db

\* the identifiers of the rows a statement returns (RETURNING, SELECT)
Returned(db, s) ==
    CASE s.op = "INSERT" -> {InsertedId(db, s)}
      [] s.op \in {"UPDATE", "DELETE", "SELECT"} -> Matched(db, s)
      [] OTHER -> {}

(***************************************************************************)
(* The store handle `db`: one session shared by every request, answering   *)
(* the statements in the order they were issued (queue holds the requests  *)
(* that wait for an answer, oldest first).  BEGIN opens a transaction      *)
(* unless one is open; a statement that fails inside a transaction aborts  *)
(* it, and every later statement fails until it ends; a statement outside  *)
(* a transaction commits at once.  `fault` is a failure of the store's own *)
(* (connection, timeout).                                                  *)
(***************************************************************************)
VARIABLES committed, work, inTx, aborted, faults, queue

Outcome(ok, c, w, t, a, rows) ==
    [ok |-> ok, committed |-> c, work |-> w, inTx |-> t, aborted |-> a, rows |-> rows]

Query(s, fault) ==
    CASE s.op = "BEGIN" ->
           IF fault THEN Outcome(FALSE, committed, work, inTx, aborted, {})
           ELSE IF inTx THEN Outcome(TRUE, committed, work, inTx, aborted, {})
           ELSE Outcome(TRUE, committed, work, TRUE, FALSE, {})
      [] s.op = "COMMIT" ->
           IF inTx /\ ~aborted /\ ~fault THEN Outcome(TRUE, work, work, FALSE, FALSE, {})
           ELSE Outcome(~fault, committed, committed, FALSE, FALSE, {})
      [] s.op = "ROLLBACK" -> Outcome(~fault, committed, committed, FALSE, FALSE, {})
      [] OTHER ->
           IF (inTx /\ aborted) \/ fault \/ ~Accepts(work, s)
           THEN Outcome(FALSE, committed, work, inTx, inTx, {})
           ELSE LET w == Effect(work, s)
                IN  Outcome(TRUE, IF inTx THEN committed ELSE w, w, inTx, aborted,
                            Returned(work, s))

Faults == IF faults < MaxFaults THEN {FALSE, TRUE} ELSE {FALSE}

Store(out, fault) ==
    /\ committed' = out.committed
    /\ work' = out.work
    /\ inTx' = out.inTx
    /\ aborted' = out.aborted
    /\ faults' = IF fault THEN faults + 1 ELSE faults

storeVars == <<committed, work, inTx, aborted, faults>>

(***************************************************************************)
(* The requests.  pc is the request's position (the `await` it is          *)
(* suspended at), stmt the statement it has in flight, sent the statements *)
(* it has issued so far, desc the element of the sensor array it is at and *)
(* idx how many it has read, err the error its catch block holds, thrown   *)
(* the error it ends with, res the response it has sent, rows the rows its *)
(* device statement returned.                                              *)
(***************************************************************************)
VARIABLES pc, kind, req, stmt, desc, idx, err, thrown, sent, res, rows

vars == <<committed, work, inTx, aborted, faults, queue,
          pc, kind, req, stmt, desc, idx, err, thrown, sent, res, rows>>

NoError == <<"", "">>
Descriptor(id, title, unit, sensorType, status, icon, deleted, edited, new) ==
    [_id |-> id, title |-> title, unit |-> unit, sensorType |-> sensorType,
     status |-> status, icon |-> icon, deleted |-> deleted, edited |-> edited, new |-> new]
NoDescriptor == Descriptor(Undef, Undef, Undef, Undef, Undef, Undef, Undef, Undef, Undef)
Definition(id, title, unit, sensorType) ==
    [id |-> id, title |-> title, unit |-> unit, sensorType |-> sensorType]
\* what the handlers read of a request: req._userParams, req.body, req.user
Request(boxId, name, description, exposure, model, location, user_id, sensors, password, user) ==
    [boxId |-> boxId, name |-> name, description |-> description, exposure |-> exposure,
     model |-> model, status |-> Undef, useAuth |-> Undef, public |-> Undef,
     location |-> location, user_id |-> user_id, sensors |-> sensors,
     password |-> password, user |-> user]
NoRequest == Request(Undef, Undef, Undef, Undef, Undef, Undef, Undef, Undef, Undef, Undef)

\* the statement of request r is the next the store answers
Turn(r) == queue # <<>> /\ Head(queue) = r

\* r, whose statement was answered if it had one, moves to position p and
\* issues statement s
Goto(r, p, s) ==
    LET rest == IF pc[r] = "idle" THEN queue ELSE Tail(queue) IN
    /\ pc' = [pc EXCEPT ![r] = p]
    /\ stmt' = [stmt EXCEPT ![r] = s]
    /\ sent' = [sent EXCEPT ![r] = IF s = NoStmt THEN @ ELSE Append(@, <<s.op, s.table>>)]
    /\ queue' = IF s = NoStmt THEN rest ELSE Append(rest, r)

(***************************************************************************)
(* updateBox                                                               *)
(***************************************************************************)
\* the object literal `updatedDevice`, in key order
updatedDevice(r, body) ==
    << <<"name", body.name>>,
       <<"updatedAt", Now(r)>>,
       <<"description", body.description>>,
       <<"exposure", body.exposure>>,
       <<"useAuth", True>>,
       <<"model", body.model>>,
       <<"public", True>>,
       <<"status", body.status>>,
       <<"latitude", IF Truthy(body.location) THEN Val(r, "lat") ELSE Undef>>,
       <<"longitude", IF Truthy(body.location) THEN Val(r, "lng") ELSE Undef>>,
       <<"userId", body.user_id>> >>

IsSet(kv) == Truthy(kv[2])
\* the fragments `"key" = 'element'` of setStatement
setStatement(ud) == SelectSeq(ud, IsSet)

updateDeviceQuery(r, body) ==
    LET set == setStatement(updatedDevice(r, body))
    IN  Stmt("UPDATE", "Device",
             [k \in 1..Len(set) |-> set[k][1]],
             [k \in 1..Len(set) |-> <<0, set[k][2]>>],
             1, <<body.boxId>>, Len(set) > 0)

(***************************************************************************)
(* updateSensor: one iteration of the loop over sensorData                 *)
(***************************************************************************)
\* variants of the classifier: edited && new tested before deleted; new alone
\* taken as a create; the final else taken as an update
ClassifyCreateFirst(d) ==
    IF Truthy(d.edited) /\ Truthy(d.new) THEN "Create"
    ELSE IF Truthy(d.deleted) THEN "Delete"
    ELSE IF Truthy(d.edited) THEN "Update"
    ELSE "Reject"

ClassifyNewAlone(d) ==
    IF Truthy(d.deleted) THEN "Delete"
    ELSE IF Truthy(d.new) THEN "Create"
    ELSE IF Truthy(d.edited) THEN "Update"
    ELSE "Reject"

ClassifyNoReject(d) ==
    IF Truthy(d.deleted) THEN "Delete"
    ELSE IF Truthy(d.edited) /\ Truthy(d.new) THEN "Create"
    ELSE "Update"

Classify(d) ==
    IF Truthy(d.deleted) THEN "Delete"
    ELSE IF Truthy(d.edited) /\ Truthy(d.new) THEN "Create"
    ELSE IF Truthy(d.edited) /\ ~Truthy(d.deleted) THEN "Update"
    ELSE "Reject"

SensorFields == <<"title", "unit", "sensorType", "status", "icon">>

deleteSensorQuery(d) == Stmt("DELETE", "Sensor", <<>>, <<>>, 1, <<d._id>>, TRUE)

\* variant of the INSERT whose values are bound out of step with the columns
insertSensorQueryShifted(r, d, boxId) ==
    Stmt("INSERT", "Sensor",
         <<"id", "title", "unit", "sensorType", "status", "icon", "updatedAt", "deviceId">>,
         [k \in 1..8 |-> <<k, Undef>>],
         0, <<d._id, d.unit, d.title, d.sensorType, d.status, d.icon, Now(r), boxId>>, TRUE)

\* variant of the INSERT that binds '' for a missing title, unit or sensorType
insertSensorQueryDefaults(r, d, boxId) ==
    Stmt("INSERT", "Sensor",
         <<"id", "title", "unit", "sensorType", "status", "icon", "updatedAt", "deviceId">>,
         [k \in 1..8 |-> <<k, Undef>>],
         0, <<d._id, OrElse(d.title, Empty), OrElse(d.unit, Empty),
              OrElse(d.sensorType, Empty), d.status, d.icon, Now(r), boxId>>, TRUE)

insertSensorQuery(r, d, boxId) ==
    Stmt("INSERT", "Sensor",
         <<"id", "title", "unit", "sensorType", "status", "icon", "updatedAt", "deviceId">>,
         [k \in 1..8 |-> <<k, Undef>>],
         0, <<d._id, d.title, d.unit, d.sensorType, d.status, d.icon, Now(r), boxId>>, TRUE)

\* variant of the UPDATE that sets status and icon whether supplied or not
updateSensorQueryDense(r, d) ==
    LET Supplied(f) == d[f] # Undef \/ f \in {"status", "icon"}
        updateFields == SelectSeq(SensorFields, Supplied)
        n == Len(updateFields)
    IN  Stmt("UPDATE", "Sensor",
             updateFields \o <<"updatedAt">>,
             [k \in 1..(n + 1) |-> <<k, Undef>>],
             n + 2,
             [k \in 1..n |-> d[updateFields[k]]] \o <<Now(r), d._id>>,
             n > 0)

updateSensorQuery(r, d) ==
    LET Supplied(f) == d[f] # Undef
        updateFields == SelectSeq(SensorFields, Supplied)
        n == Len(updateFields)
    IN  Stmt("UPDATE", "Sensor",
             updateFields \o <<"updatedAt">>,
             [k \in 1..(n + 1) |-> <<k, Undef>>],
             n + 2,
             [k \in 1..n |-> d[updateFields[k]]] \o <<Now(r), d._id>>,
             n > 0)

sensorQuery(r, d, boxId) ==
    CASE Classify(d) = "Delete" -> deleteSensorQuery(d)
      [] Classify(d) = "Create" -> insertSensorQuery(r, d, boxId)
      [] Classify(d) = "Update" -> updateSensorQuery(r, d)
      [] OTHER -> NoStmt

\* variant of the catch block that ends the transaction with COMMIT
CatchCommit(r, p, e) ==
    /\ Goto(r, p, Plain("COMMIT"))
    /\ err' = [err EXCEPT ![r] = e]

\* the catch block: the handler holds error e and issues ROLLBACK
Catch(r, p, e) ==
    /\ Goto(r, p, Plain("ROLLBACK"))
    /\ err' = [err EXCEPT ![r] = e]

\* the next turn of `for (const {...} of sensorData)`, and what follows the loop
Iterate(r, Ds) ==
    IF req[r].sensors = Undef
    THEN /\ Catch(r, "u_rollback", <<"TypeError", "sensor">>)
         /\ UNCHANGED <<desc, idx>>
    ELSE \/ /\ Goto(r, "u_commit", Plain("COMMIT"))
            /\ UNCHANGED <<desc, idx, err>>
         \/ /\ idx[r] < MaxBatch
            /\ \E d \in Ds :
                 /\ desc' = [desc EXCEPT ![r] = d]
                 /\ idx' = [idx EXCEPT ![r] = @ + 1]
                 /\ IF Classify(d) = "Reject"
                    THEN Catch(r, "u_rollback", <<"Invalid operation", "sensor">>)
                    ELSE /\ Goto(r, "u_sensor", sensorQuery(r, d, req[r].boxId))
                         /\ UNCHANGED err

\* the request arrives: the code up to `await db.query('BEGIN')`
UpdateBoxStart(r, Rs) ==
    /\ pc[r] = "idle"
    /\ \E q \in Rs :
         /\ req' = [req EXCEPT ![r] = q]
         /\ kind' = [kind EXCEPT ![r] = "updateBox"]
    /\ Goto(r, "u_begin", Plain("BEGIN"))
    /\ UNCHANGED <<storeVars, desc, idx, err, thrown, res, rows>>

\* BEGIN returns; `await db.query(updateDeviceQuery, values)`
UpdateBoxBegin(r) ==
    /\ pc[r] = "u_begin" /\ Turn(r)
    /\ \E fault \in Faults :
         LET out == Query(stmt[r], fault) IN
         /\ Store(out, fault)
         /\ IF out.ok
            THEN Goto(r, "u_device", updateDeviceQuery(r, req[r])) /\ UNCHANGED err
            ELSE Catch(r, "u_rollback", <<"store", "begin">>)
    /\ UNCHANGED <<thrown, kind, req, desc, idx, res, rows>>

\* the device UPDATE returns; updateSensor starts
UpdateBoxDevice(r, Ds) ==
    /\ pc[r] = "u_device" /\ Turn(r)
    /\ \E fault \in Faults :
         LET out == Query(stmt[r], fault) IN
         /\ Store(out, fault)
         /\ rows' = [rows EXCEPT ![r] = out.rows]
         /\ IF out.ok
            THEN Iterate(r, Ds)
            ELSE Catch(r, "u_rollback", <<"store", "device">>) /\ UNCHANGED <<desc, idx>>
    /\ UNCHANGED <<thrown, kind, req, res>>

\* variant of the loop that goes on to the next descriptor whatever the answer
UpdateBoxSensorGoesOn(r, Ds) ==
    /\ pc[r] = "u_sensor" /\ Turn(r)
    /\ \E fault \in Faults :
         LET out == Query(stmt[r], fault) IN
         /\ Store(out, fault)
         /\ Iterate(r, Ds)
    /\ UNCHANGED <<thrown, kind, req, res, rows>>

\* a sensor statement returns; the loop goes on
UpdateBoxSensor(r, Ds) ==
    /\ pc[r] = "u_sensor" /\ Turn(r)
    /\ \E fault \in Faults :
         LET out == Query(stmt[r], fault) IN
         /\ Store(out, fault)
         /\ IF out.ok
            THEN Iterate(r, Ds)
            ELSE Catch(r, "u_rollback", <<"store", "sensor">>) /\ UNCHANGED <<desc, idx>>
    /\ UNCHANGED <<thrown, kind, req, res, rows>>

\* variant of the end of updateBox that responds whatever COMMIT answered
UpdateBoxCommitResponds(r) ==
    /\ pc[r] = "u_commit" /\ Turn(r)
    /\ \E fault \in Faults :
         LET out == Query(stmt[r], fault) IN
         /\ Store(out, fault)
         /\ res' = [res EXCEPT ![r] = True]
         /\ IF out.ok
            THEN Goto(r, "done", NoStmt) /\ UNCHANGED err
            ELSE Catch(r, "u_rollback", <<"store", "commit">>)
    /\ UNCHANGED <<thrown, kind, req, desc, idx, rows>>

\* COMMIT returns; res.send({ code: 'Ok', data: updatedDevice })
UpdateBoxCommit(r) ==
    /\ pc[r] = "u_commit" /\ Turn(r)
    /\ \E fault \in Faults :
         LET out == Query(stmt[r], fault) IN
         /\ Store(out, fault)
         /\ IF out.ok
            THEN /\ Goto(r, "done", NoStmt)
                 /\ res' = [res EXCEPT ![r] = True]
                 /\ UNCHANGED err
            ELSE /\ Catch(r, "u_rollback", <<"store", "commit">>)
                 /\ UNCHANGED res
    /\ UNCHANGED <<thrown, kind, req, desc, idx, rows>>

\* ROLLBACK returns; `throw err`
UpdateBoxRollback(r) ==
    /\ pc[r] = "u_rollback" /\ Turn(r)
    /\ \E fault \in Faults :
         LET out == Query(stmt[r], fault) IN
         /\ Store(out, fault)
         /\ thrown' = [thrown EXCEPT ![r] = IF out.ok THEN err[r] ELSE <<"store", "rollback">>]
    /\ Goto(r, "failed", NoStmt)
    /\ UNCHANGED <<kind, req, desc, idx, err, res, rows>>

(***************************************************************************)
(* postNewBox                                                              *)
(***************************************************************************)
\* the object literal `newDevice`
newDevice(r, body) ==
    [id |-> Uuid(r),
     updatedAt |-> Now(r),
     name |-> body.name,
     description |-> OrElse(body.description, Null),
     exposure |-> body.exposure,
     useAuth |-> OrElse(body.useAuth, False),
     model |-> OrElse(body.model, Null),
     public |-> OrElse(body.public, False),
     status |-> OrElse(body.status, Inactive),
     latitude |-> Val(r, "lat"),
     longitude |-> Val(r, "lng"),
     userId |-> body.user]

\* a builder that numbers the optional placeholders by column, not by position
insertDeviceQueryFixedSlots(nd) ==
    LET values0 == <<nd.id, nd.name, nd.exposure, nd.useAuth, nd.public, nd.status,
                     nd.latitude, nd.longitude, nd.userId, nd.updatedAt>>
        withDescription == nd.description # Null
        withModel == nd.model # Null
    IN  Stmt("INSERT", "Device",
             <<"id", "name", "exposure", "useAuth", "public", "status", "latitude",
               "longitude", "userId", "updatedAt">>
                 \o (IF withDescription THEN <<"description">> ELSE <<>>)
                 \o (IF withModel THEN <<"model">> ELSE <<>>),
             [k \in 1..10 |-> <<k, Undef>>]
                 \o (IF withDescription THEN << <<11, Undef>> >> ELSE <<>>)
                 \o (IF withModel THEN << <<12, Undef>> >> ELSE <<>>),
             0,
             values0 \o (IF withDescription THEN <<nd.description>> ELSE <<>>)
                     \o (IF withModel THEN <<nd.model>> ELSE <<>>),
             TRUE)

insertDeviceQuery(nd) ==
    LET values0 == <<nd.id, nd.name, nd.exposure, nd.useAuth, nd.public, nd.status,
                     nd.latitude, nd.longitude, nd.userId, nd.updatedAt>>
        withDescription == nd.description # Null
        values1 == IF withDescription THEN Append(values0, nd.description) ELSE values0
        withModel == nd.model # Null
        values2 == IF withModel THEN Append(values1, nd.model) ELSE values1
        placeholders == (IF withDescription THEN <<"description">> ELSE <<>>)
                        \o (IF withModel THEN <<"model">> ELSE <<>>)
        valueString == [k \in 1..10 |-> <<k, Undef>>]
                        \o (IF withDescription THEN << <<Len(values1), Undef>> >> ELSE <<>>)
                        \o (IF withModel THEN << <<Len(values2), Undef>> >> ELSE <<>>)
    IN  Stmt("INSERT", "Device",
             <<"id", "name", "exposure", "useAuth", "public", "status", "latitude",
               "longitude", "userId", "updatedAt">> \o placeholders,
             valueString, 0, values2, TRUE)

insertSensorValues(r, sensorData, id) ==
    <<sensorData.id, sensorData.title, sensorData.unit, sensorData.sensorType, id, Now(r)>>

insertNewSensorQuery(r, sensorData, id) ==
    Stmt("INSERT", "Sensor",
         <<"id", "title", "unit", "sensorType", "deviceId", "updatedAt">>,
         [k \in 1..6 |-> <<k, Undef>>], 0, insertSensorValues(r, sensorData, id), TRUE)

\* newBox.rows[0].id
FirstRow(rs) == CHOOSE k \in rs : TRUE

\* the next turn of `for (const sensorData of newDevice.sensors)`, and what follows
IterateNew(r, rs, Ss) ==
    IF req[r].sensors = Undef \/ rs = {}
    THEN /\ Catch(r, "c_rollback", <<"TypeError", "sensor">>)
         /\ UNCHANGED <<desc, idx>>
    ELSE \/ /\ Goto(r, "c_commit", Plain("COMMIT"))
            /\ UNCHANGED <<desc, idx, err>>
         \/ /\ idx[r] < MaxBatch
            /\ \E sensorData \in Ss :
                 /\ desc' = [desc EXCEPT ![r] = sensorData]
                 /\ idx' = [idx EXCEPT ![r] = @ + 1]
                 /\ Goto(r, "c_sensor", insertNewSensorQuery(r, sensorData, FirstRow(rs)))
                 /\ UNCHANGED err

PostNewBoxStart(r, Rs) ==
    /\ pc[r] = "idle"
    /\ \E q \in Rs :
         /\ req' = [req EXCEPT ![r] = q]
         /\ kind' = [kind EXCEPT ![r] = "postNewBox"]
    /\ Goto(r, "c_begin", Plain("BEGIN"))
    /\ UNCHANGED <<storeVars, desc, idx, err, thrown, res, rows>>

\* BEGIN returns; newDevice and the INSERT are built; `await db.query(query, values)`
PostNewBoxBegin(r) ==
    /\ pc[r] = "c_begin" /\ Turn(r)
    /\ \E fault \in Faults :
         LET out == Query(stmt[r], fault) IN
         /\ Store(out, fault)
         /\ IF ~out.ok THEN Catch(r, "c_rollback", <<"store", "begin">>)
            ELSE IF req[r].location = Undef
                 THEN Catch(r, "c_rollback", <<"TypeError", "device">>)
                 ELSE /\ Goto(r, "c_device", insertDeviceQuery(newDevice(r, req[r])))
                      /\ UNCHANGED err
    /\ UNCHANGED <<thrown, kind, req, desc, idx, res, rows>>

\* the device INSERT returns; the loop over the sensors starts
PostNewBoxDevice(r, Ss) ==
    /\ pc[r] = "c_device" /\ Turn(r)
    /\ \E fault \in Faults :
         LET out == Query(stmt[r], fault) IN
         /\ Store(out, fault)
         /\ rows' = [rows EXCEPT ![r] = out.rows]
         /\ IF out.ok
            THEN IterateNew(r, out.rows, Ss)
            ELSE Catch(r, "c_rollback", <<"store", "device">>) /\ UNCHANGED <<desc, idx>>
    /\ UNCHANGED <<thrown, kind, req, res>>

PostNewBoxSensor(r, Ss) ==
    /\ pc[r] = "c_sensor" /\ Turn(r)
    /\ \E fault \in Faults :
         LET out == Query(stmt[r], fault) IN
         /\ Store(out, fault)
         /\ IF out.ok
            THEN IterateNew(r, rows[r], Ss)
            ELSE Catch(r, "c_rollback", <<"store", "sensor">>) /\ UNCHANGED <<desc, idx>>
    /\ UNCHANGED <<thrown, kind, req, res, rows>>

\* COMMIT returns; res.send(201, { message, data: newBox.rows[0].id })
PostNewBoxCommit(r) ==
    /\ pc[r] = "c_commit" /\ Turn(r)
    /\ \E fault \in Faults :
         LET out == Query(stmt[r], fault) IN
         /\ Store(out, fault)
         /\ IF out.ok
            THEN /\ Goto(r, "done", NoStmt)
                 /\ res' = [res EXCEPT ![r] = FirstRow(rows[r])]
                 /\ UNCHANGED err
            ELSE /\ Catch(r, "c_rollback", <<"store", "commit">>)
                 /\ UNCHANGED res
    /\ UNCHANGED <<thrown, kind, req, desc, idx, rows>>

\* ROLLBACK returns; `throw error`
PostNewBoxRollback(r) ==
    /\ pc[r] = "c_rollback" /\ Turn(r)
    /\ \E fault \in Faults :
         LET out == Query(stmt[r], fault) IN
         /\ Store(out, fault)
         /\ thrown' = [thrown EXCEPT ![r] = IF out.ok THEN err[r] ELSE <<"store", "rollback">>]
    /\ Goto(r, "failed", NoStmt)
    /\ UNCHANGED <<kind, req, desc, idx, err, res, rows>>

(***************************************************************************)
(* deleteBox                                                               *)
(***************************************************************************)
passwordQuery(user) == Stmt("SELECT", "Password", <<>>, <<>>, 1, <<user>>, TRUE)
deleteBoxQuery(boxId) == Stmt("DELETE", "Device", <<>>, <<>>, 1, <<boxId>>, TRUE)

DeleteBoxStart(r, Rs) ==
    /\ pc[r] = "idle"
    /\ \E q \in Rs :
         /\ req' = [req EXCEPT ![r] = q]
         /\ kind' = [kind EXCEPT ![r] = "deleteBox"]
    /\ Goto(r, "d_begin", Plain("BEGIN"))
    /\ UNCHANGED <<storeVars, desc, idx, err, thrown, res, rows>>

\* BEGIN returns; `await db.query(passwordQuery, [user.id])`
DeleteBoxBegin(r) ==
    /\ pc[r] = "d_begin" /\ Turn(r)
    /\ \E fault \in Faults :
         LET out == Query(stmt[r], fault) IN
         /\ Store(out, fault)
         /\ IF out.ok
            THEN Goto(r, "d_password", passwordQuery(req[r].user)) /\ UNCHANGED err
            ELSE Catch(r, "d_rollback", <<"store", "begin">>)
    /\ UNCHANGED <<thrown, kind, req, desc, idx, res, rows>>

\* a handler that goes on to the DELETE whatever the comparison says
DeleteBoxPasswordUnchecked(r) ==
    /\ pc[r] = "d_password" /\ Turn(r)
    /\ \E fault \in Faults :
         LET out == Query(stmt[r], fault) IN
         /\ Store(out, fault)
         /\ IF ~out.ok THEN Catch(r, "d_rollback", <<"store", "password">>)
            ELSE IF out.rows = {} THEN Catch(r, "d_rollback", <<"Invalid password", "password">>)
            ELSE Goto(r, "d_delete", deleteBoxQuery(req[r].boxId)) /\ UNCHANGED err
    /\ UNCHANGED <<thrown, kind, req, desc, idx, res, rows>>

\* the password row returns; `await bcrypt.compare(...)` resolves;
\* `await db.query(deleteBoxQuery, [boxId])`
DeleteBoxPassword(r) ==
    /\ pc[r] = "d_password" /\ Turn(r)
    /\ \E fault \in Faults :
         LET out == Query(stmt[r], fault) IN
         /\ Store(out, fault)
         /\ IF ~out.ok THEN Catch(r, "d_rollback", <<"store", "password">>)
            ELSE IF out.rows = {} THEN Catch(r, "d_rollback", <<"Invalid password", "password">>)
            ELSE IF req[r].password # work.pwd[FirstRow(out.rows)]
                 THEN Catch(r, "d_rollback", <<"Password incorrect", "password">>)
                 ELSE Goto(r, "d_delete", deleteBoxQuery(req[r].boxId)) /\ UNCHANGED err
    /\ UNCHANGED <<thrown, kind, req, desc, idx, res, rows>>

\* the DELETE returns; `await db.query('COMMIT')`
DeleteBoxDelete(r) ==
    /\ pc[r] = "d_delete" /\ Turn(r)
    /\ \E fault \in Faults :
         LET out == Query(stmt[r], fault) IN
         /\ Store(out, fault)
         /\ rows' = [rows EXCEPT ![r] = out.rows]
         /\ IF out.ok
            THEN Goto(r, "d_commit", Plain("COMMIT")) /\ UNCHANGED err
            ELSE Catch(r, "d_rollback", <<"store", "device">>)
    /\ UNCHANGED <<thrown, kind, req, desc, idx, res>>

\* COMMIT returns; res.send(...); postToMattermost(`... "${rows[0].name}" ...`)
DeleteBoxCommit(r) ==
    /\ pc[r] = "d_commit" /\ Turn(r)
    /\ \E fault \in Faults :
         LET out == Query(stmt[r], fault) IN
         /\ Store(out, fault)
         /\ IF ~out.ok
            THEN Catch(r, "d_rollback", <<"store", "commit">>) /\ UNCHANGED res
            ELSE /\ res' = [res EXCEPT ![r] = True]
                 /\ IF rows[r] = {}
                    THEN Catch(r, "d_rollback", <<"TypeError", "respond">>)
                    ELSE Goto(r, "done", NoStmt) /\ UNCHANGED err
    /\ UNCHANGED <<thrown, kind, req, desc, idx, rows>>

\* ROLLBACK returns; `return handleError(err)`
DeleteBoxRollback(r) ==
    /\ pc[r] = "d_rollback" /\ Turn(r)
    /\ \E fault \in Faults :
         LET out == Query(stmt[r], fault) IN
         /\ Store(out, fault)
         /\ thrown' = [thrown EXCEPT ![r] = IF out.ok THEN err[r] ELSE <<"store", "rollback">>]
    /\ Goto(r, "failed", NoStmt)
    /\ UNCHANGED <<kind, req, desc, idx, err, res, rows>>

(***************************************************************************)
(* Inputs.  The requests that run concurrently draw from the first sets;   *)
(* the wide sets are the inputs of a request that runs alone.              *)
(***************************************************************************)
Password == <<0, "password">>
Wrong == <<0, "wrong">>

UpdateRequests(r) ==
    {Request(D1, Val(r, "name"), Undef, Undef, Undef, Undef, Undef, True, Undef, U1)}

Descriptors(r) ==
    {Descriptor(S1, Val(r, "title"), Undef, Undef, Undef, Undef, Undef, True, Undef),
     Descriptor(S1, Undef, Undef, Undef, Undef, Undef, True, Undef, Undef),
     Descriptor(Undef, Val(r, "title"), Val(r, "unit"), Val(r, "sensorType"),
                Undef, Undef, Undef, True, True),
     Descriptor(S1, Val(r, "title"), Undef, Undef, Undef, Undef, Undef, Undef, Undef)}

NewBoxRequests(r) ==
    {Request(Undef, Val(r, "name"), Undef, Val(r, "exposure"), Undef, True, Undef, True, Undef, U1)}

Definitions(r) ==
    {Definition(i, Val(r, "title"), Val(r, "unit"), Val(r, "sensorType")) :
        i \in {S1, <<r, "sensor">>}}

DeleteRequests(r) ==
    {Request(D1, Undef, Undef, Undef, Undef, Undef, Undef, Undef, p, U1) : p \in {Password, Wrong}}

U2 == <<0, "u2">>
BoxIds == {D1, D9}
Supply(r, f) == {Undef, Val(r, f)}

WideUpdateRequests(r) ==
    {Request(b, n, d, Undef, Undef, l, Undef, s, Undef, U1) :
        b \in BoxIds, n \in {Undef, Empty, Val(r, "name")},
        d \in {Undef, Empty, Val(r, "description")}, l \in {Undef, True}, s \in {Undef, True}}

\* the three flags, each absent or truthy, or each falsy or truthy, with no
\* field, the title alone or all fields
FlagDescriptors(r) ==
    {Descriptor(i, f[1], f[2], f[2], f[2], f[2], fl[1], fl[2], fl[3]) :
        i \in {Undef, S1, S3},
        f \in {<<Undef, Undef>>, <<Empty, Undef>>, <<Val(r, "title"), Val(r, "field")>>},
        fl \in [1..3 -> {Undef, True}] \cup [1..3 -> {False, True}]}
\* every combination of supplied fields, for an edited descriptor of an
\* existing sensor and for a new one
FieldDescriptors(r) ==
    {Descriptor(f[1], t, u, st, sta, ic, Undef, True, f[2]) :
        f \in {<<S1, Undef>>, <<S3, True>>}, t \in Supply(r, "title"),
        u \in Supply(r, "unit"), st \in Supply(r, "sensorType"),
        sta \in Supply(r, "status"), ic \in Supply(r, "icon")}
WideDescriptors(r) == FlagDescriptors(r) \cup FieldDescriptors(r)

WideNewBoxRequests(r) ==
    {Request(Undef, n, d, Val(r, "exposure"), m, l, Undef, s, Undef, U1) :
        n \in Supply(r, "name"), d \in Supply(r, "description"), m \in Supply(r, "model"),
        l \in {Undef, True}, s \in {Undef, True}}

WideDefinitions(r) ==
    {Definition(i, t, u, st) :
        i \in {Undef, S1, <<r, "sensor">>}, t \in Supply(r, "title"),
        u \in Supply(r, "unit"), st \in Supply(r, "sensorType")}

WideDeleteRequests(r) ==
    {Request(b, Undef, Undef, Undef, Undef, Undef, Undef, Undef, p, u) :
        b \in BoxIds, p \in {Password, Wrong}, u \in {U1, U2}}

\* the sensor array of a request that runs alone: wide for the plain request
DescriptorsFor(r) ==
    IF req[r] \in UpdateRequests(r) THEN WideDescriptors(r)
    ELSE Descriptors(r)
           \cup {Descriptor(S2, Undef, Undef, Undef, Undef, Undef, True, Undef, Undef),
                 Descriptor(S4, Undef, Undef, Undef, Undef, Undef, True, Undef, Undef),
                 Descriptor(S4, Val(r, "title"), Undef, Undef, Undef, Undef, Undef, True, Undef)}

(***************************************************************************)
(* The initial store and the specification                                 *)
(***************************************************************************)
InitialDevice == [c \in DeviceCols |-> IF c \in {"useAuth", "public"} THEN False ELSE Orig(c)]
InitialSensor(d) == [c \in SensorCols |-> IF c = "deviceId" THEN d ELSE Orig(c)]
InitialStore ==
    [dev |-> [k \in {D1, D2} |-> InitialDevice],
     sen |-> [k \in {S1, S2, S4} |-> InitialSensor(IF k = S4 THEN D2 ELSE D1)],
     pwd |-> [k \in {U1} |-> Password]]

Init ==
    /\ committed = InitialStore
    /\ work = InitialStore
    /\ inTx = FALSE
    /\ aborted = FALSE
    /\ faults = 0
    /\ queue = <<>>
    /\ pc = [r \in Requests |-> "idle"]
    /\ kind = [r \in Requests |-> ""]
    /\ req = [r \in Requests |-> NoRequest]
    /\ stmt = [r \in Requests |-> NoStmt]
    /\ desc = [r \in Requests |-> NoDescriptor]
    /\ idx = [r \in Requests |-> 0]
    /\ err = [r \in Requests |-> NoError]
    /\ thrown = [r \in Requests |-> NoError]
    /\ sent = [r \in Requests |-> <<>>]
    /\ res = [r \in Requests |-> Undef]
    /\ rows = [r \in Requests |-> {}]

\* a request arrives
Start(r) ==
    \/ UpdateBoxStart(r, UpdateRequests(r))
    \/ PostNewBoxStart(r, NewBoxRequests(r))
    \/ DeleteBoxStart(r, DeleteRequests(r))

\* the store answers the statement request r has in flight
Step(r) ==
    \/ UpdateBoxBegin(r)
    \/ UpdateBoxDevice(r, Descriptors(r))
    \/ UpdateBoxSensor(r, Descriptors(r))
    \/ UpdateBoxCommit(r)
    \/ UpdateBoxRollback(r)
    \/ PostNewBoxBegin(r)
    \/ PostNewBoxDevice(r, Definitions(r))
    \/ PostNewBoxSensor(r, Definitions(r))
    \/ PostNewBoxCommit(r)
    \/ PostNewBoxRollback(r)
    \/ DeleteBoxBegin(r)
    \/ DeleteBoxPassword(r)
    \/ DeleteBoxDelete(r)
    \/ DeleteBoxCommit(r)
    \/ DeleteBoxRollback(r)

Next == \E r \in Requests : Start(r) \/ Step(r)

\* the requests interleaving on the store handle
Spec == Init /\ [][Next]_vars

\* one request running alone on the store handle, over the wide inputs
AloneStart ==
    \/ UpdateBoxStart(1, WideUpdateRequests(1))
    \/ PostNewBoxStart(1, WideNewBoxRequests(1))
    \/ DeleteBoxStart(1, WideDeleteRequests(1))

AloneStep ==
    \/ UpdateBoxBegin(1)
    \/ UpdateBoxDevice(1, DescriptorsFor(1))
    \/ UpdateBoxSensor(1, DescriptorsFor(1))
    \/ UpdateBoxCommit(1)
    \/ UpdateBoxRollback(1)
    \/ PostNewBoxBegin(1)
    \/ PostNewBoxDevice(1, WideDefinitions(1))
    \/ PostNewBoxSensor(1, WideDefinitions(1))
    \/ PostNewBoxCommit(1)
    \/ PostNewBoxRollback(1)
    \/ DeleteBoxBegin(1)
    \/ DeleteBoxPassword(1)
    \/ DeleteBoxDelete(1)
    \/ DeleteBoxCommit(1)
    \/ DeleteBoxRollback(1)

AloneNext == AloneStart \/ AloneStep

Alone == Init /\ [][AloneNext]_vars

(***************************************************************************)
(* The claims                                                              *)
(***************************************************************************)
Last(q) == q[Len(q)]
Ended(r) == pc[r] \in {"done", "failed"}
InFlight(r) == pc[r] \notin {"idle", "done", "failed"}
\* store state db holds a value, a device or a sensor that request r supplied
Holds(db, r) ==
    \/ \E k \in DOMAIN db.dev : By(k) = r \/ \E c \in DeviceCols : By(db.dev[k][c]) = r
    \/ \E k \in DOMAIN db.sen : By(k) = r \/ \E c \in SensorCols : By(db.sen[k][c]) = r
\* the descriptor request r is at carries these flags
IsUpdateBox(r) == kind[r] = "updateBox" /\ idx[r] > 0
\* request r's step that takes the answer to its sensor statement, which succeeded
SensorDone(r) ==
    /\ kind[r] = "updateBox"
    /\ pc[r] = "u_sensor" /\ Turn(r)
    /\ sent'[r] # sent[r]
    /\ ~(pc'[r] = "u_rollback" /\ err'[r] = <<"store", "sensor">>)

\* C1: an updateBox request that failed at a sensor operation has left nothing
\* of what it supplied in the committed store (here: while the store has failed
\* no statement of its own accord).
C1_FailedUpdateLeavesNothing ==
    \A r \in Requests :
        (faults = 0 /\ kind[r] = "updateBox" /\ pc[r] = "failed" /\ err[r][2] = "sensor")
            => ~Holds(committed, r)

\* C2: the committed store never holds anything of a request that has not
\* committed: what a request wrote is committed by its own COMMIT alone.
C2_OwnTransaction ==
    \A r \in Requests : (faults = 0 /\ pc[r] # "done") => ~Holds(committed, r)

\* C3: a request that holds an error has issued ROLLBACK as its last statement,
\* a request ends failed only so, a request that ends well ends with COMMIT,
\* and a request that has issued BEGIN has a statement waiting for its answer
\* and goes on when the answer comes, until it ends.
C3_RollbackBeforeError ==
    \A r \in Requests :
        /\ err[r] # NoError => Last(sent[r]) = <<"ROLLBACK", "">>
        /\ pc[r] = "failed" => err[r] # NoError /\ thrown[r] # NoError
        /\ pc[r] = "done" => Last(sent[r]) = <<"COMMIT", "">>
        /\ pc[r] # "idle" => sent[r][1] = <<"BEGIN", "">>
        /\ InFlight(r) => \E i \in DOMAIN queue : queue[i] = r
        /\ (InFlight(r) /\ Turn(r)) => ENABLED Step(r)
C3_Witness ==
    \E r \in Requests :
        /\ pc[r] = "failed" /\ thrown[r] = <<"store", "sensor">>
        /\ Last(sent[r]) = <<"ROLLBACK", "">>

\* C4: a postNewBox request that failed has left no device and no sensor of its
\* own in the committed store.
C4_FailedCreateLeavesNothing ==
    \A r \in Requests :
        (faults = 0 /\ kind[r] = "postNewBox" /\ pc[r] = "failed") => ~Holds(committed, r)

\* C5: when postNewBox responds after reading K sensor definitions, the committed
\* store holds the new device, exactly K sensors that reference it, and the
\* response carries the new device's identifier.
C5_CreateAddsDeviceAndSensors ==
    [][\A r \in Requests :
          (faults = 0 /\ pc[r] = "c_commit" /\ pc'[r] = "done") =>
              /\ res'[r] = Uuid(r)
              /\ Uuid(r) \in DOMAIN committed'.dev
              /\ Cardinality({k \in DOMAIN committed'.sen :
                                 committed'.sen[k]["deviceId"] = Uuid(r)}) = idx[r]]_vars

\* C6: a descriptor whose deleted flag is truthy has exactly one statement issued
\* for it, the DELETE of the sensor with the descriptor's identifier, whatever
\* edited and new are.
C6_DeletedIsDelete ==
    \A r \in Requests :
        (kind[r] = "updateBox" /\ pc[r] = "u_sensor" /\ Truthy(desc[r].deleted)) =>
            /\ stmt[r].op = "DELETE" /\ stmt[r].table = "Sensor"
            /\ stmt[r].values = <<desc[r]._id>> /\ stmt[r].where = 1
            /\ Len(sent[r]) = idx[r] + 2
            /\ Last(sent[r]) = <<"DELETE", "Sensor">>
C6_Witness ==
    \E r \in Requests :
        /\ kind[r] = "updateBox" /\ pc[r] = "u_sensor"
        /\ Truthy(desc[r].deleted) /\ Truthy(desc[r].edited) /\ Truthy(desc[r].new)
        /\ stmt[r].op = "DELETE"

\* C7: a descriptor with edited and new truthy and deleted falsy is an INSERT;
\* when the store accepts it, exactly one sensor row is added, owned by the
\* request's device and carrying the descriptor's title, unit and sensorType,
\* and no other row changes.
C7_CreateAddsOneRow ==
    [][\A r \in Requests :
          (SensorDone(r) /\ Truthy(desc[r].edited) /\ Truthy(desc[r].new)
                         /\ ~Truthy(desc[r].deleted)) =>
              /\ stmt[r].op = "INSERT"
              /\ work'.dev = work.dev
              /\ \E k \in DOMAIN work'.sen \ DOMAIN work.sen :
                   /\ DOMAIN work'.sen = DOMAIN work.sen \cup {k}
                   /\ work'.sen[k]["deviceId"] = req[r].boxId
                   /\ work'.sen[k]["title"] = desc[r].title
                   /\ work'.sen[k]["unit"] = desc[r].unit
                   /\ work'.sen[k]["sensorType"] = desc[r].sensorType
                   /\ \A j \in DOMAIN work.sen : work'.sen[j] = work.sen[j]]_vars
C7_Witness ==
    \E r \in Requests :
        /\ kind[r] = "updateBox" /\ pc[r] = "u_commit" /\ idx[r] = 1
        /\ Truthy(desc[r].edited) /\ Truthy(desc[r].new) /\ ~Truthy(desc[r].deleted)
        /\ desc[r]._id = Undef
        /\ \E k \in DOMAIN work.sen \ DOMAIN committed.sen :
             /\ work.sen[k]["deviceId"] = D1
             /\ work.sen[k]["title"] = Val(r, "title")

NoFlag(d) == d.deleted = Undef /\ d.edited = Undef /\ d.new = Undef
C11_OneByOneInOrder ==
    [][\A r \in Requests :
          kind[r] = "updateBox" =>
              /\ (Len(sent'[r]) > Len(sent[r]) /\ Last(sent'[r])[2] = "Sensor") =>
                    /\ pc[r] \in {"u_device", "u_sensor"} /\ Turn(r)
                    /\ Accepts(work, stmt[r]) /\ ~(inTx /\ aborted)
                    /\ err'[r] = NoError
                    /\ idx'[r] = idx[r] + 1
                    /\ Len(sent[r]) = idx[r] + 2
                    /\ sent[r][2] = <<"UPDATE", "Device">>
                    /\ stmt'[r] = sensorQuery(r, desc'[r], req[r].boxId)
              /\ err[r] # NoError =>
                    sent'[r] = sent[r] /\ idx'[r] = idx[r] /\ desc'[r] = desc[r]]_vars
C11_Witness ==
    \E r \in Requests :
        /\ kind[r] = "updateBox" /\ pc[r] = "failed" /\ idx[r] = 2
        /\ thrown[r] = <<"store", "sensor">>
        /\ sent[r] = << <<"BEGIN", "">>, <<"UPDATE", "Device">>, <<"UPDATE", "Sensor">>,
                        <<"DELETE", "Sensor">>, <<"ROLLBACK", "">> >>

\* C12: when the store answers a sensor DELETE or UPDATE of updateBox that
\* matches no row, the request fails: it issues ROLLBACK, never the next
\* statement or COMMIT.
C12_ZeroRowsIsNotFound ==
    [][\A r \in Requests :
          (/\ kind[r] = "updateBox" /\ pc[r] = "u_sensor" /\ sent'[r] # sent[r]
           /\ stmt[r].op \in {"DELETE", "UPDATE"}
           /\ Matched(work, stmt[r]) = {}) => pc'[r] = "u_rollback"]_vars

\* C13: an updateBox request whose device UPDATE returned no row fails: past
\* the device UPDATE it is rolling back or has ended failed; it issues no
\* sensor statement and no COMMIT and sends no response.
C13_NoDeviceIsNotFound ==
    \A r \in Requests :
        (kind[r] = "updateBox" /\ pc[r] \notin {"idle", "u_begin", "u_device"} /\ rows[r] = {})
            => pc[r] \in {"u_rollback", "failed"} /\ res[r] = Undef

\* the field of the request body that device column c is taken from
BodyField(c) ==
    CASE c \in {"latitude", "longitude"} -> "location"
      [] c = "userId" -> "user_id"
      [] OTHER -> c

\* C14: the device UPDATE of updateBox names no column whose field the request
\* does not supply (updatedAt apart, which every update sets), so an
\* unsupplied column keeps its stored value.
C14_DeviceUpdateIsSparse ==
    \A r \in Requests :
        (kind[r] = "updateBox" /\ pc[r] = "u_device") =>
            \A k \in 1..Len(stmt[r].cols) :
                stmt[r].cols[k] # "updatedAt" => req[r][BodyField(stmt[r].cols[k])] # Undef

\* a request body that supplies no device field
EmptyMap(q) ==
    \A f \in {"name", "description", "exposure", "model", "status", "location", "user_id"} :
        q[f] = Undef

\* C15: an updateBox request with no device field issues no device UPDATE, and
\* when its sensor array is empty it issues no sensor statement either, ends
\* with a response and leaves the store as it was.
C15_EmptyUpdateWritesNothing ==
    \A r \in Requests :
        (kind[r] = "updateBox" /\ EmptyMap(req[r]) /\ faults = 0) =>
            /\ \A k \in 1..Len(sent[r]) : sent[r][k] # <<"UPDATE", "Device">>
            /\ (Ended(r) /\ req[r].sensors # Undef /\ idx[r] = 0) =>
                  /\ pc[r] = "done" /\ res[r] # Undef
                  /\ \A k \in 1..Len(sent[r]) : sent[r][k][1] \in {"BEGIN", "COMMIT"}
                  /\ committed = InitialStore

\* C16: an updateBox request on device d1 with no device field and the one
\* descriptor {_id: s2, deleted: true} ends with sensor s2 gone and the device
\* row as it was.
C16_DeleteLeavesDevice ==
    \A r \in Requests :
        (/\ kind[r] = "updateBox" /\ pc[r] = "done" /\ faults = 0
         /\ EmptyMap(req[r]) /\ req[r].boxId = D1 /\ idx[r] = 1
         /\ desc[r]._id = S2 /\ Truthy(desc[r].deleted)) =>
            /\ S2 \notin DOMAIN committed.sen
            /\ committed.dev[D1] = InitialStore.dev[D1]

\* C17: in the committed store and in the open transaction, every sensor row
\* references a device row that exists.
Referenced(db) == \A k \in DOMAIN db.sen : db.sen[k]["deviceId"] \in DOMAIN db.dev
C18_NoIdentifierFails ==
    \A r \in Requests :
        (/\ IsUpdateBox(r) /\ desc[r]._id = Undef
         /\ Classify(desc[r]) \in {"Delete", "Update"}) =>
            /\ pc[r] \in {"u_rollback", "failed"}
            /\ Len(sent[r]) = idx[r] + 2
            /\ Last(sent[r]) = <<"ROLLBACK", "">>

\* C19: when the INSERT of a create descriptor that lacks title, unit or
\* sensorType is answered, the request holds the store's error and issues
\* ROLLBACK, and no sensor row was added.
Lacking(d) == \E f \in {"title", "unit", "sensorType"} : d[f] = Undef
C20_CommitThenRespond ==
    [][\A r \in Requests :
          kind[r] \in {"updateBox", "postNewBox"} =>
              /\ (sent'[r] # sent[r] /\ Last(sent'[r]) = <<"COMMIT", "">>) =>
                    /\ pc[r] \in {"u_device", "u_sensor", "c_device", "c_sensor"} /\ Turn(r)
                    /\ Accepts(work, stmt[r]) /\ ~(inTx /\ aborted) /\ faults' = faults
                    /\ err[r] = NoError
                    /\ Len(sent[r]) = idx[r] + 2
                    /\ sent[r][1] = <<"BEGIN", "">> /\ sent[r][2][2] = "Device"
                    /\ \A k \in 3..Len(sent[r]) : sent[r][k][2] = "Sensor"
              /\ res'[r] # res[r] =>
                    /\ pc[r] \in {"u_commit", "c_commit"} /\ Turn(r)
                    /\ stmt[r] = Plain("COMMIT") /\ faults' = faults
                    /\ pc'[r] = "done" /\ err'[r] = NoError
              /\ res[r] # Undef =>
                    /\ pc[r] = "done" /\ pc'[r] = "done"
                    /\ \A k \in 1..Len(sent'[r]) : sent'[r][k][1] # "ROLLBACK"]_vars
C20_Witness ==
    \E r \in Requests :
        /\ kind[r] = "postNewBox" /\ pc[r] = "done" /\ res[r] = Uuid(r)
        /\ sent[r] = << <<"BEGIN", "">>, <<"INSERT", "Device">>, <<"INSERT", "Sensor">>,
                        <<"INSERT", "Sensor">>, <<"COMMIT", "">> >>

\* C21: a request that ends failed ends with the first error it met, the one
\* its catch block caught, whatever the store answered to ROLLBACK.
C21_FirstErrorPropagated ==
    \A r \in Requests : pc[r] = "failed" => thrown[r] = err[r]

\* C22: a deleteBox request that has sent the success response deleted a
\* device row and holds no error: it never responds for an identifier that
\* matched no row, and never both responds and reports an error.
C22_DeleteOneOutcome ==
    \A r \in Requests :
        (kind[r] = "deleteBox" /\ res[r] # Undef) =>
            /\ rows[r] # {}
            /\ err[r] = NoError /\ thrown[r] = NoError

\* C23: a descriptor with none of the keys deleted, edited, new is ignored by
\* updateBox: the request holds no error for it and goes on to the next
\* descriptor or to COMMIT.
C23_NoFlagIgnored ==
    \A r \in Requests :
        (IsUpdateBox(r) /\ NoFlag(desc[r]) /\ faults = 0) =>
            /\ err[r] = NoError
            /\ pc[r] \in {"u_sensor", "u_commit", "done"}

\* the descriptor read by presence of its keys, whatever their values
ByPresence(d) ==
    [d EXCEPT !.deleted = IF @ = Undef THEN Undef ELSE True,
              !.edited = IF @ = Undef THEN Undef ELSE True,
              !.new = IF @ = Undef THEN Undef ELSE True]

\* C24: updateBox handles a descriptor by the presence of the keys deleted,
\* edited and new, not by their values: the statement issued for it is the
\* one for the descriptor with every present key truthy, and it is rejected
\* only if that one is.
C24_PresenceDecides ==
    \A r \in Requests :
        (IsUpdateBox(r) /\ faults = 0) =>
            /\ pc[r] = "u_sensor" => stmt[r] = sensorQuery(r, ByPresence(desc[r]), req[r].boxId)
            /\ err[r] = <<"Invalid operation", "sensor">> =>
                  Classify(ByPresence(desc[r])) = "Reject"

\* C25: after an updateBox request on device d1 that sent description as the
\* empty string has responded, the stored description of d1 is empty or
\* absent.
C25_EmptyDescriptionDeletes ==
    \A r \in Requests :
        (/\ kind[r] = "updateBox" /\ pc[r] = "done" /\ faults = 0
         /\ req[r].boxId = D1 /\ req[r].description = Empty) =>
            committed.dev[D1]["description"] \in {Empty, Null, Undef}

\* C26: an updateBox request without a sensors array holds no error and, when
\* it has ended, has responded with the supplied name stored.
C26_NoSensorsIsEmptyBatch ==
    \A r \in Requests :
        (kind[r] = "updateBox" /\ req[r].sensors = Undef /\ faults = 0) =>
            /\ err[r] = NoError
            /\ Ended(r) =>
                  /\ pc[r] = "done" /\ res[r] # Undef
                  /\ (req[r].boxId = D1 /\ Truthy(req[r].name)) =>
                        committed.dev[D1]["name"] = req[r].name

\* C27: for an update descriptor that supplies none of title, unit,
\* sensorType, status and icon, updateBox issues a well-formed statement and
\* holds no error.
NoField(d) == \A k \in 1..Len(SensorFields) : d[SensorFields[k]] = Undef
C27_BareUpdateIsValid ==
    \A r \in Requests :
        (/\ IsUpdateBox(r) /\ faults = 0 /\ req[r].boxId = D1
         /\ Classify(desc[r]) = "Update" /\ NoField(desc[r]) /\ desc[r]._id = S1) =>
            /\ pc[r] = "u_sensor" => stmt[r].wellFormed
            /\ err[r] = NoError

\* every term of statement s is a placeholder of a bound value, none a literal
\* written into the text
AllBound(s) ==
    \A k \in 1..Len(s.terms) : s.terms[k][1] \in 1..Len(s.values) /\ s.terms[k][2] = Undef

\* C28: every statement a request has in flight carries its values as bound
\* parameters; in the device UPDATE of updateBox the k-th fragment is bound to
\* placeholder k + 1, after the identifier's $1.
C28_ValuesAreBound ==
    \A r \in Requests :
        InFlight(r) =>
            /\ AllBound(stmt[r])
            /\ pc[r] = "u_device" =>
                  \A k \in 1..Len(stmt[r].terms) : stmt[r].terms[k][1] = k + 1

\* the columns every device INSERT lists
MandatoryColumns ==
    <<"id", "name", "exposure", "useAuth", "public", "status", "latitude", "longitude",
      "userId", "updatedAt">>

Listed(s, column) == \E k \in 1..Len(s.cols) : s.cols[k] = column

\* C29: the device INSERT of postNewBox lists the mandatory columns first, lists
\* description and model exactly when the request supplies them, has as many
\* columns as placeholders as bound values, and binds the k-th column through
\* placeholder k to the k-th value, the device's value of that column.
C29_DeviceInsertAligned ==
    \A r \in Requests :
        pc[r] = "c_device" =>
            LET s == stmt[r]
                nd == newDevice(r, req[r])
            IN  /\ SubSeq(s.cols, 1, Len(MandatoryColumns)) = MandatoryColumns
                /\ Listed(s, "description") <=> req[r].description # Undef
                /\ Listed(s, "model") <=> req[r].model # Undef
                /\ Len(s.cols) = Len(MandatoryColumns)
                                   + (IF req[r].description # Undef THEN 1 ELSE 0)
                                   + (IF req[r].model # Undef THEN 1 ELSE 0)
                /\ Len(s.cols) = Len(s.terms) /\ Len(s.terms) = Len(s.values)
                /\ \A k \in 1..Len(s.cols) :
                       s.terms[k] = <<k, Undef>> /\ s.values[k] = nd[s.cols[k]]

\* a device INSERT with a model and no description is in flight
C29_Witness ==
    \E r \in Requests :
        /\ pc[r] = "c_device"
        /\ req[r].model # Undef /\ req[r].description = Undef
        /\ Len(stmt[r].cols) = Len(MandatoryColumns) + 1

\* the positions of sent[r] at which the request issued statement op
Issued(r, op) == {k \in 1..Len(sent[r]) : sent[r][k][1] = op}

\* C30: a request ends its transaction once: it never issues both COMMIT and
\* ROLLBACK, and it issues neither of them twice.
C30_TerminatedOnce ==
    \A r \in Requests :
        Cardinality(Issued(r, "COMMIT") \cup Issued(r, "ROLLBACK")) <= 1

\* the sensor rows of store db that device d owns
OwnedBy(db, d) == {k \in DOMAIN db.sen : db.sen[k]["deviceId"] = d}

\* store db holds device d and the sensors of d as the initial store does
Untouched(db, d) ==
    /\ d \in DOMAIN db.dev /\ db.dev[d] = InitialStore.dev[d]
    /\ OwnedBy(db, d) = OwnedBy(InitialStore, d)
    /\ \A k \in OwnedBy(InitialStore, d) : db.sen[k] = InitialStore.sen[k]

\* C31: a request that updates device d leaves every other device and the
\* sensors of every other device as they were, whatever sensor identifiers its
\* descriptors name.
C31_OtherDevicesUntouched ==
    \A r \in Requests :
        (kind[r] = "updateBox" /\ \A q \in Requests \ {r} : kind[q] = "") =>
            \A d \in DOMAIN InitialStore.dev \ {req[r].boxId} :
                Untouched(work, d) /\ Untouched(committed, d)

\* the requesting user has a stored hash and the request's password matches it
PasswordValid(db, q) == q.user \in DOMAIN db.pwd /\ db.pwd[q.user] = q.password

\* C32: deleteBox issues the DELETE of the device only when a hash is stored for
\* the requesting user and the password matches it; otherwise the request
\* issues no DELETE, ends by rolling back, and leaves the store, the device row
\* included, as it was.
C32_DeleteNeedsPassword ==
    \A r \in Requests :
        kind[r] = "deleteBox" =>
            /\ Issued(r, "DELETE") # {} => PasswordValid(InitialStore, req[r])
            /\ (~PasswordValid(InitialStore, req[r]) /\ Ended(r)) =>
                  /\ pc[r] = "failed" /\ Issued(r, "ROLLBACK") # {}
                  /\ Issued(r, "COMMIT") = {}
                  /\ committed = InitialStore
                  /\ faults = 0 => (~inTx /\ work = InitialStore)

\* a request to delete an existing device with a wrong password has ended
C32_Witness ==
    \E r \in Requests :
        /\ kind[r] = "deleteBox" /\ pc[r] = "failed"
        /\ req[r].boxId = D1 /\ req[r].user = U1 /\ req[r].password = Wrong
        /\ thrown[r] = <<"Password incorrect", "password">>
        /\ D1 \in DOMAIN committed.dev

====
